---- MODULE Spec2Model ----
(***************************************************************************)
(* Model of sync_claude.py: mirroring the tree of a source .claude         *)
(* directory into a target .claude directory by symlinking leaf files.     *)
(*                                                                         *)
(* A path is a sequence of names starting at the filesystem root <<>>.     *)
(* The filesystem is a function from the paths of the existing entries to  *)
(* nodes; a node is a regular file, a real directory or a symlink with its *)
(* (absolute) link target.  Every os / os.path call of the script is an    *)
(* operator over that function, with POSIX symlink resolution.             *)
(***************************************************************************)
EXTENDS Integers, Sequences, FiniteSets, TLC

VARIABLES fs, fs0, fsLoop, args, pc, err, tgt_root,
          stack, curTop, curDirs, curFiles,
          linked, skipped, removed, cleaned, unlinkFailed, outcome

vars == <<fs, fs0, fsLoop, args, pc, err, tgt_root,
          stack, curTop, curDirs, curFiles,
          linked, skipped, removed, cleaned, unlinkFailed, outcome>>

-----------------------------------------------------------------------------
(* Bounds of the model *)

\* most entries below the source root in an initial filesystem
MaxSrcEntries == 2

\* most entries below the target .claude directory in an initial filesystem
MaxTgtEntries == 2

\* longest chain of nested project directories below tgt_dir
MaxChain == 2

\* largest value given to --depth
MaxDepthArg == 2

\* symlinks followed in one path resolution before ELOOP
SymlinkMax == 4

-----------------------------------------------------------------------------
(* Nodes and paths *)

File == [kind |-> "file", to |-> <<>>]

Dir == [kind |-> "dir", to |-> <<>>]

Link(t) == [kind |-> "link", to |-> t]

\* os.path.dirname of an absolute path
Dirname(p) == IF p = <<>> THEN <<>> ELSE SubSeq(p, 1, Len(p) - 1)

\* os.path.basename
Basename(p) == IF p = <<>> THEN "" ELSE p[Len(p)]

\* os.path.join(p, name)
Join(p, name) == Append(p, name)

\* os.path.relpath(p, root) for p below root
Relpath(p, root) == SubSeq(p, Len(root) + 1, Len(p))

IsPrefix(r, p) == Len(r) <= Len(p) /\ SubSeq(p, 1, Len(r)) = r

Cwd == <<"w">>

\* args.src keeps its default ".claude", made absolute against the cwd
SrcRoot == Join(Cwd, ".claude")

KindAt(f, p) == IF p = <<>> THEN "dir" ELSE f[p].kind

\* Path resolution: cur is an existing real directory, rest the components
\* still to look up.  follow says whether a symlink in the last component is
\* followed (stat) or not (lstat).  ok is FALSE on ENOENT/ENOTDIR/ELOOP in an
\* intermediate component; with ok, exists says whether the last component
\* is there and path is the location it has, or would have, in the
\* filesystem.
RECURSIVE Namei(_, _, _, _, _)
Namei(f, cur, rest, follow, fuel) ==
  IF rest = <<>> THEN [ok |-> TRUE, exists |-> TRUE, path |-> cur]
  ELSE LET n == Append(cur, Head(rest))
           last == Len(rest) = 1
       IN IF n \notin DOMAIN f
          THEN [ok |-> last, exists |-> FALSE, path |-> n]
          ELSE IF f[n].kind = "dir"
          THEN Namei(f, n, Tail(rest), follow, fuel)
          ELSE IF f[n].kind = "file"
          THEN [ok |-> last, exists |-> last, path |-> n]
          ELSE IF last /\ ~follow
          THEN [ok |-> TRUE, exists |-> TRUE, path |-> n]
          ELSE IF fuel = 0
          THEN [ok |-> FALSE, exists |-> FALSE, path |-> n]
          ELSE Namei(f, <<>>, f[n].to \o Tail(rest), follow, fuel - 1)

LStat(f, p) == Namei(f, <<>>, p, FALSE, SymlinkMax)

Stat(f, p) == Namei(f, <<>>, p, TRUE, SymlinkMax)

\* os.path.lexists
LExists(f, p) == LET r == LStat(f, p) IN r.ok /\ r.exists

\* os.path.exists
Exists(f, p) == LET r == Stat(f, p) IN r.ok /\ r.exists

\* os.path.isdir (follows symlinks)
IsDir(f, p) == LET r == Stat(f, p) IN r.ok /\ r.exists /\ KindAt(f, r.path) = "dir"

\* os.path.islink
IsLink(f, p) == LET r == LStat(f, p) IN r.ok /\ r.exists /\ KindAt(f, r.path) = "link"

\* the node lstat sees at p, or a marker when there is none
NoNode == [kind |-> "none", to |-> <<>>]

NodeAt(f, p) ==
  LET r == LStat(f, p)
  IN IF ~(r.ok /\ r.exists) THEN NoNode
     ELSE IF r.path = <<>> THEN Dir ELSE f[r.path]

\* os.mkdir
Mkdir(f, p) ==
  LET r == LStat(f, p)
  IN IF r.ok /\ ~r.exists
     THEN [ok |-> TRUE, exc |-> "none", fs |-> (r.path :> Dir) @@ f]
     ELSE [ok |-> FALSE,
           exc |-> IF r.ok THEN "FileExistsError" ELSE "OSError",
           fs |-> f]

\* os.makedirs(p, exist_ok=True)
RECURSIVE Makedirs(_, _)
Makedirs(f, p) ==
  LET head == Dirname(p)
      r1 == IF p # <<>> /\ head # <<>> /\ ~Exists(f, head)
            THEN Makedirs(f, head)
            ELSE [ok |-> TRUE, exc |-> "none", fs |-> f]
  IN IF ~r1.ok /\ r1.exc # "FileExistsError" THEN r1
     ELSE LET m == Mkdir(r1.fs, p)
          IN IF m.ok \/ IsDir(r1.fs, p)
             THEN [ok |-> TRUE, exc |-> "none", fs |-> m.fs]
             ELSE m

\* os.symlink handed the path relative to the source root
SymlinkRelative(f, src, p) ==
  LET r == LStat(f, p)
  IN IF r.ok /\ ~r.exists
     THEN [ok |-> TRUE, fs |-> (r.path :> Link(Relpath(src, SrcRoot))) @@ f]
     ELSE [ok |-> FALSE, fs |-> f]

\* os.symlink(src, p)
Symlink(f, src, p) ==
  LET r == LStat(f, p)
  IN IF r.ok /\ ~r.exists
     THEN [ok |-> TRUE, fs |-> (r.path :> Link(src)) @@ f]
     ELSE [ok |-> FALSE, fs |-> f]

\* os.unlink(p) of an entry that is not a directory
Unlink(f, p) ==
  LET r == LStat(f, p)
  IN [q \in DOMAIN f \ {r.path} |-> f[q]]

\* One os.scandir(top) as os.walk uses it: the names of the entries of top,
\* split by DirEntry.is_dir(), which follows symlinks.
Scandir(f, top) ==
  LET r == Stat(f, top)
      isdir == r.ok /\ r.exists /\ KindAt(f, r.path) = "dir"
      names == IF isdir
               THEN {q[Len(q)] : q \in {q \in DOMAIN f :
                        Len(q) = Len(r.path) + 1 /\ IsPrefix(r.path, q)}}
               ELSE {}
  IN [ok |-> isdir,
      dirs |-> {n \in names : IsDir(f, Join(top, n))},
      nondirs |-> {n \in names : ~IsDir(f, Join(top, n))}]

\* the orders in which a set can be listed
Orders(S) ==
  {s \in [1..Cardinality(S) -> S] : \A i, j \in 1..Cardinality(S) : s[i] = s[j] => i = j}

-----------------------------------------------------------------------------
(* find_claude_directories *)

\* the value argparse gives args.depth: the int default of the option when
\* --depth is omitted, the command-line string when it is given (the option
\* declares no type)
DepthDefault == [type |-> "int", val |-> 1]

DepthGiven(n) == [type |-> "str", val |-> n]

DepthInt(n) == [type |-> "int", val |-> n]

\* The os.walk loop of find_claude_directories from directory cur on: the
\* .claude directories found at cur and below it.
RECURSIVE FindWalk(_, _, _, _)
FindWalk(f, root_dir, cur, depth) ==
  LET sd == Scandir(f, cur)
      current_depth == Len(cur) - Len(root_dir)
  IN IF ~sd.ok \/ current_depth > depth THEN {}
     ELSE LET here == IF ".claude" \in sd.dirs THEN {Join(cur, ".claude")} ELSE {}
              dirs == sd.dirs \ {".claude"}
              down == {d \in dirs : ~IsLink(f, Join(cur, d))}
          IN here \cup UNION {FindWalk(f, root_dir, Join(cur, d), depth) : d \in down}

\* find_claude_directories(root_dir, depth): `depth < 0` raises TypeError when
\* depth is a str
FindClaudeDirectories(f, root_dir, depth) ==
  IF depth.type # "int" THEN [raised |-> TRUE, found |-> {}]
  ELSE IF depth.val < 0 THEN [raised |-> FALSE, found |-> {}]
  ELSE [raised |-> FALSE, found |-> FindWalk(f, root_dir, root_dir, depth.val)]

\* main, lines 120-130: the target root main settles on, or the error it
\* stops with
ResolveTgtRoot(f, tgt_dir, depth) ==
  IF Basename(tgt_dir) # ".claude"
  THEN LET r == FindClaudeDirectories(f, tgt_dir, depth)
       IN IF r.raised THEN [err |-> "TypeError", root |-> tgt_dir]
          ELSE IF Cardinality(r.found) > 1
          THEN [err |-> "SystemExit: multiple", root |-> tgt_dir]
          ELSE IF Cardinality(r.found) = 1
          THEN [err |-> "none", root |-> CHOOSE c \in r.found : TRUE]
          ELSE [err |-> "none", root |-> Join(tgt_dir, ".claude")]
  ELSE [err |-> "none", root |-> tgt_dir]

-----------------------------------------------------------------------------
(* Initial filesystems *)

TgtDir == <<"t">>

Ext == <<"x">>

ExtFile == <<"x", "f">>

Nowhere == <<"x", "gone">>

Names == {"a", "b"}

RelPaths == {<<n>> : n \in Names} \cup {<<n, m>> : n \in Names, m \in Names}

\* sets of relative paths that can be the entries of a directory tree
Shapes(max) ==
  {S \in SUBSET RelPaths :
     /\ Cardinality(S) <= max
     /\ \A p \in S : Len(p) = 2 => <<p[1]>> \in S}

\* the trees of shape S below root whose nodes are drawn from kinds[rel]
Trees(root, S, kinds) ==
  LET Fits(k) == \A p \in S : (\E q \in S : Len(q) = 2 /\ q[1] = p[1] /\ Len(p) = 1)
                                 => k[p] = Dir
      abs == {root \o p : p \in S}
  IN {[q \in abs |-> k[Relpath(q, root)]] :
        k \in {k \in [S -> UNION {kinds[p] : p \in S}] :
                 Fits(k) /\ \A p \in S : k[p] \in kinds[p]}}

\* a source entry: a regular file, a directory, or a symlink to a file, to a
\* directory or to nothing; below a subdirectory a regular file or a broken
\* symlink
SrcKinds ==
  [rel \in RelPaths |->
     IF Len(rel) = 1 THEN {File, Dir, Link(ExtFile), Link(Ext), Link(Nowhere)}
     ELSE {File, Link(Nowhere)}]

\* a target entry: a regular file, a directory, the link an earlier run made
\* for the source file, or a symlink to a directory outside, to the target's
\* own b directory, or to nothing; below a subdirectory a regular file or the
\* link of an earlier run
TgtKinds ==
  [rel \in RelPaths |->
     IF Len(rel) = 1
     THEN {File, Dir, Link(SrcRoot \o rel), Link(Ext),
           Link(TgtDir \o <<".claude", "b">>), Link(Nowhere)}
     ELSE {File, Link(SrcRoot \o rel)}]

Base == (Cwd :> Dir) @@ (TgtDir :> Dir) @@ (Ext :> Dir) @@ (ExtFile :> File)

\* the chain of project directories t/p, t/p/p, ... of length k
ChainDir(i) == TgtDir \o [j \in 1..i |-> "p"]

\* what can sit at <dir>/.claude
ClaudeKinds == {NoNode, Dir, File, Link(Ext)}

\* the sources of InitTree: none, one regular file, one symlink to a file, a
\* subdirectory beside a file
TreeSources ==
  {<<>>,
   (SrcRoot :> Dir) @@ (Join(SrcRoot, "a") :> File),
   (SrcRoot :> Dir) @@ (Join(SrcRoot, "a") :> Link(ExtFile)),
   (SrcRoot :> Dir) @@ (Join(SrcRoot, "a") :> Dir) @@ (Join(SrcRoot, "b") :> File)}

TypeOK ==
  /\ pc \in {"start", "resolved", "clean", "cleaning", "loop", "walk", "done", "error"}
  /\ linked \in Nat /\ skipped \in Nat /\ removed \in Nat
  /\ cleaned \in Nat \cup {-1}
  /\ unlinkFailed \in BOOLEAN

InitRest ==
  /\ fs0 = fs
  /\ fsLoop = fs
  /\ pc = "start"
  /\ err = "none"
  /\ tgt_root = <<>>
  /\ stack = <<>>
  /\ curTop = <<>>
  /\ curDirs = {}
  /\ curFiles = {}
  /\ linked = 0
  /\ skipped = 0
  /\ removed = 0
  /\ cleaned = -1
  /\ unlinkFailed = FALSE
  /\ outcome = <<>>

\* a source tree and a target .claude directory with entries of every kind;
\* --depth omitted
InitContent ==
  /\ \E S \in Shapes(MaxSrcEntries), T \in Shapes(MaxTgtEntries) :
       \E st \in Trees(SrcRoot, S, SrcKinds) :
         \E tt \in Trees(Join(TgtDir, ".claude"), T, TgtKinds) :
           \E hasTgt \in {b \in BOOLEAN : T # {} => b} :
             fs = st @@ tt @@ (SrcRoot :> Dir) @@ Base
                  @@ (IF hasTgt THEN (Join(TgtDir, ".claude") :> Dir) ELSE <<>>)
  /\ \E c \in BOOLEAN :
       args = [tgt_dir |-> TgtDir, depth |-> DepthDefault, clean |-> c]
  /\ InitRest

\* a chain of project directories below tgt_dir with or without .claude
\* entries, every way of giving --depth and tgt_dir (the source root's parent
\* and a directory inside the source among them)
InitTree ==
  /\ \E k \in 0..MaxChain :
       \E ck \in [0..k -> ClaudeKinds] :
         \E src \in TreeSources :
           fs = [q \in {Join(ChainDir(i), ".claude") : i \in {i \in 0..k : ck[i] # NoNode}}
                   |-> ck[Len(q) - 2]]
                @@ [q \in {ChainDir(i) : i \in 1..k} |-> Dir]
                @@ src
                @@ Base
  /\ \E td \in {TgtDir, Join(TgtDir, ".claude"), Cwd, Join(SrcRoot, "a")}, c \in BOOLEAN :
       \E d \in {DepthDefault} \cup {DepthGiven(n) : n \in 0..MaxDepthArg} :
         args = [tgt_dir |-> td, depth |-> d, clean |-> c]
  /\ InitRest

Init == InitContent \/ InitTree

-----------------------------------------------------------------------------
(* main *)

Fail(e) == pc' = "error" /\ err' = e

\* lines 117-130: parse the arguments and settle the target root
ResolveTarget ==
  /\ pc = "start"
  /\ LET r == ResolveTgtRoot(fs, args.tgt_dir, args.depth)
     IN /\ tgt_root' = r.root
        /\ IF r.err # "none" THEN Fail(r.err)
           ELSE pc' = "resolved" /\ err' = err
  /\ UNCHANGED <<fs, fs0, fsLoop, args, stack, curTop, curDirs, curFiles,
                 linked, skipped, removed, cleaned, unlinkFailed, outcome>>

\* lines 132-137: the source must be a directory; create the target root
PrepareDirs ==
  /\ pc = "resolved"
  /\ IF ~IsDir(fs, SrcRoot)
     THEN Fail("SystemExit: src") /\ fs' = fs
     ELSE LET m == Makedirs(fs, tgt_root)
          IN /\ fs' = m.fs
             /\ IF ~m.ok THEN Fail(m.exc)
                ELSE /\ pc' = IF args.clean THEN "clean" ELSE "loop"
                     /\ err' = err
  /\ UNCHANGED <<fs0, fsLoop, args, tgt_root, stack, curTop, curDirs, curFiles,
                 linked, skipped, removed, cleaned, unlinkFailed, outcome>>

\* clean_old_symlinks, lines 73-80: the directory must exist; start the walk
CleanEnter ==
  /\ pc = "clean"
  /\ IF ~IsDir(fs, tgt_root)
     THEN Fail("SystemExit: no .claude") /\ UNCHANGED <<stack, removed>>
     ELSE /\ pc' = "cleaning"
          /\ err' = err
          /\ removed' = 0
          /\ stack' = <<tgt_root>>
  /\ UNCHANGED <<fs, fs0, fsLoop, args, tgt_root, curTop, curDirs, curFiles,
                 linked, skipped, cleaned, unlinkFailed, outcome>>

\* line 81 looking at the files only
CleanCandidatesFiles(sd) == sd.nondirs

\* line 81: the names `files + dirs` of one listed directory
CleanCandidates(sd) == sd.nondirs \cup sd.dirs

\* lines 81-89 for the names of one listed directory, one after the other:
\* a name that is a symlink is unlinked and counted, unless it is in failing,
\* where os.unlink raises OSError and the failure is printed
RECURSIVE CleanNames(_, _, _, _)
CleanNames(f, top, names, failing) ==
  IF names = {} THEN [fs |-> f, removed |-> 0, failed |-> FALSE]
  ELSE LET name == CHOOSE n \in names : TRUE
           path == Join(top, name)
           unlinked == IsLink(f, path) /\ name \notin failing
           r == CleanNames(IF unlinked THEN Unlink(f, path) ELSE f,
                           top, names \ {name}, failing)
       IN [fs |-> r.fs,
           removed |-> r.removed + (IF unlinked THEN 1 ELSE 0),
           failed |-> (r.failed \/ (IsLink(f, path) /\ name \in failing))]

\* One round of the os.walk loop of clean_old_symlinks (lines 80-89): the next
\* directory is listed, its symlinks are removed, and os.walk goes on into
\* the listed directories that are not symlinks when it looks at them.
CleanStep ==
  /\ pc = "cleaning"
  /\ stack # <<>>
  /\ LET top == stack[Len(stack)]
         rest == SubSeq(stack, 1, Len(stack) - 1)
         sd == Scandir(fs, top)
         names == CleanCandidates(sd)
     IN \E failing \in SUBSET {n \in names : IsLink(fs, Join(top, n))} :
          LET c == CleanNames(fs, top, names, failing)
              down == {d \in sd.dirs : ~IsLink(c.fs, Join(top, d))}
          IN /\ fs' = c.fs
             /\ removed' = removed + c.removed
             /\ unlinkFailed' = (unlinkFailed \/ c.failed)
             /\ \E ord \in Orders(down) :
                  stack' = rest \o [i \in 1..Len(ord) |-> Join(top, ord[i])]
  /\ UNCHANGED <<fs0, fsLoop, args, pc, err, tgt_root, curTop, curDirs, curFiles,
                 linked, skipped, cleaned, outcome>>

\* line 91: the walk is over; the count is printed and clean_old_symlinks
\* returns
CleanReturn ==
  /\ pc = "cleaning"
  /\ stack = <<>>
  /\ cleaned' = removed
  /\ pc' = "loop"
  /\ UNCHANGED <<fs, fs0, fsLoop, args, err, tgt_root, stack, curTop, curDirs, curFiles,
                 linked, skipped, removed, unlinkFailed, outcome>>

\* lines 140-143: the counters are reset and iter_file_endpoints(src_root)
\* is created; os.walk has listed nothing yet
StartLoop ==
  /\ pc = "loop"
  /\ linked' = 0
  /\ skipped' = 0
  /\ stack' = <<SrcRoot>>
  /\ curTop' = SrcRoot
  /\ curDirs' = {}
  /\ curFiles' = {}
  /\ fsLoop' = fs
  /\ pc' = "walk"
  /\ UNCHANGED <<fs, fs0, args, err, tgt_root, removed, cleaned, unlinkFailed, outcome>>

\* iter_file_endpoints, line 41: os.walk(root, followlinks=False) moves on
\* once the files of the current directory are used up.  It goes into the
\* listed directories that are not symlinks, in listing order, and lists the
\* next directory; with none left the loop of main ends (line 159).
WalkAdvance ==
  /\ pc = "walk"
  /\ curFiles = {}
  /\ \E ord \in Orders({d \in curDirs : ~IsLink(fs, Join(curTop, d))}) :
       LET stk == stack \o [i \in 1..Len(ord) |-> Join(curTop, ord[i])]
       IN IF stk = <<>>
          THEN /\ pc' = "done"
               /\ stack' = <<>>
               /\ curDirs' = {}
               /\ UNCHANGED <<curTop, curFiles>>
          ELSE LET top == stk[Len(stk)]
                   sd == Scandir(fs, top)
               IN /\ pc' = pc
                  /\ stack' = SubSeq(stk, 1, Len(stk) - 1)
                  /\ curTop' = top
                  /\ curDirs' = sd.dirs
                  /\ curFiles' = sd.nondirs
  /\ UNCHANGED <<fs, fs0, fsLoop, args, err, tgt_root,
                 linked, skipped, removed, cleaned, unlinkFailed, outcome>>

\* iter_file_endpoints, line 44: the path of a listed name
SrcPath(cur_root, name) == Join(cur_root, name)

\* iter_file_endpoints, lines 45-55: whether the listed name is yielded
IsEndpoint(f, src) == LExists(f, src) /\ ~(IsDir(f, src) /\ ~IsLink(f, src))

\* line 146 asking os.path.exists, which follows symlinks
TargetTakenFollowing(f, tgt_abs) == Exists(f, tgt_abs)

\* main, line 146: whether the target path is taken
TargetTaken(f, tgt_abs) == LExists(f, tgt_abs)

\* ensure_parent_dir
EnsureParentDir(f, path) ==
  LET parent == Dirname(path)
  IN IF parent # <<>> THEN Makedirs(f, parent)
     ELSE [ok |-> TRUE, exc |-> "none", fs |-> f]

\* lines 143-157 for one name that os.walk listed: the body of the loop of
\* main for the endpoint iter_file_endpoints yields for it, if any
LinkStep ==
  /\ pc = "walk"
  /\ \E name \in curFiles :
       LET src == SrcPath(curTop, name)
           rel_path == Relpath(src, SrcRoot)
           tgt_abs == tgt_root \o rel_path
       IN /\ curFiles' = curFiles \ {name}
          /\ IF ~IsEndpoint(fs, src)
             THEN UNCHANGED <<fs, pc, err, linked, skipped, outcome>>
             ELSE IF TargetTaken(fs, tgt_abs)
             THEN /\ skipped' = skipped + 1
                  /\ outcome' = (rel_path :> "skipped") @@ outcome
                  /\ UNCHANGED <<fs, pc, err, linked>>
             ELSE LET m == EnsureParentDir(fs, tgt_abs)
                      s == Symlink(m.fs, src, tgt_abs)
                  IN IF m.ok /\ s.ok
                     THEN /\ fs' = s.fs
                          /\ linked' = linked + 1
                          /\ outcome' = (rel_path :> "linked") @@ outcome
                          /\ UNCHANGED <<pc, err, skipped>>
                     ELSE /\ fs' = m.fs
                          /\ Fail(IF m.ok THEN "FileExistsError" ELSE m.exc)
                          /\ outcome' = (rel_path :> "error") @@ outcome
                          /\ UNCHANGED <<linked, skipped>>
  /\ UNCHANGED <<fs0, fsLoop, args, tgt_root, stack, curTop, curDirs,
                 removed, cleaned, unlinkFailed>>

Next ==
  \/ ResolveTarget
  \/ PrepareDirs
  \/ CleanEnter
  \/ CleanStep
  \/ CleanReturn
  \/ StartLoop
  \/ WalkAdvance
  \/ LinkStep

Spec == Init /\ [][Next]_vars

-----------------------------------------------------------------------------
(* Properties *)

\* the relative paths of the leaf files of the source tree in f: regular
\* files and symlinks to files, found without following symlinks
SrcLeafRels(f) ==
  {Relpath(q, SrcRoot) :
     q \in {q \in DOMAIN f :
              /\ IsPrefix(SrcRoot, q) /\ q # SrcRoot
              /\ \/ f[q].kind = "file"
                 \/ f[q].kind = "link" /\ Exists(f, q) /\ ~IsDir(f, q)}}

\* the directories between the target root and the entry of rel
ParentRels(rel) == {SubSeq(rel, 1, i) : i \in 1..(Len(rel) - 1)}

LinkedRels == {r \in DOMAIN outcome : outcome[r] = "linked"}

SkippedRels == {r \in DOMAIN outcome : outcome[r] = "skipped"}

\* the symlinks in the tree of directory root, symlinks not followed
LinksUnder(f, root) ==
  LET r == Stat(f, root)
  IN IF ~(r.ok /\ r.exists) THEN {}
     ELSE {q \in DOMAIN f : IsPrefix(r.path, q) /\ q # r.path /\ f[q].kind = "link"}

\* the loop of main has been entered
LoopStarted == pc \in {"walk", "done"} \/ (pc = "error" /\ DOMAIN outcome # {})

C2_AsStated ==
  pc \in {"resolved", "clean", "cleaning", "loop", "walk", "done"} =>
    \A rel \in SrcLeafRels(fs0) :
      LExists(fs0, tgt_root \o rel) =>
        /\ NodeAt(fs, tgt_root \o rel) = NodeAt(fs0, tgt_root \o rel)
        /\ rel \in DOMAIN outcome => outcome[rel] = "skipped"
        /\ pc = "done" => rel \in SkippedRels

\* C2 amended: a source file whose target path exists in any form when the
\* loop of main starts (after the removal --clean-old-symlinks asks for)
\* keeps that entry as it was, gets no link and is counted as skipped; the
\* counters count the files skipped and linked.
C2_SkipsExisting ==
  LoopStarted =>
    /\ \A rel \in SrcLeafRels(fsLoop) \cup DOMAIN outcome :
         LExists(fsLoop, tgt_root \o rel) =>
           /\ NodeAt(fs, tgt_root \o rel) = NodeAt(fsLoop, tgt_root \o rel)
           /\ rel \in DOMAIN outcome => outcome[rel] = "skipped"
           /\ (pc = "done" /\ rel \in SrcLeafRels(fsLoop)) => rel \in SkippedRels
    /\ skipped = Cardinality(SkippedRels)
    /\ linked = Cardinality(LinkedRels)

\* main has completed and skipped a file whose target path held a broken
\* symlink
C2_Witness ==
  /\ pc = "done"
  /\ \E rel \in SkippedRels :
       IsLink(fsLoop, tgt_root \o rel) /\ ~Exists(fsLoop, tgt_root \o rel)

\* C3: when clean_old_symlinks has returned and no unlink failed, the count
\* it printed is the number of symlinks the tree of claude_dir held before the
\* call and, until main goes on, no symlink is left in that tree; with
\* --clean-old-symlinks main has made no link before clean_old_symlinks
\* returned.
C3_CleanRemovesAll ==
  /\ (cleaned # -1 /\ ~unlinkFailed) =>
       /\ cleaned = Cardinality(LinksUnder(fs0, tgt_root))
       /\ pc = "loop" => LinksUnder(fs, tgt_root) = {}
  /\ (args.clean /\ DOMAIN outcome # {}) => cleaned # -1

\* clean_old_symlinks has just returned, having removed a symlink to a
\* directory and another symlink, none failing
C3_Witness ==
  /\ pc = "loop"
  /\ ~unlinkFailed
  /\ cleaned >= 2
  /\ \E q \in LinksUnder(fs0, tgt_root) : IsDir(fs0, q)

\* C4: with --depth N given and a tgt_dir not named .claude, main settles on
\* the target root, or stops on several .claude directories, as
\* find_claude_directories(tgt_dir, depth=N) with the integer N decides; so
\* --depth 1 does what omitting the option does.
C4_DepthOption ==
  (pc # "start" /\ args.depth.type = "str" /\ Basename(args.tgt_dir) # ".claude") =>
    LET r == ResolveTgtRoot(fs0, args.tgt_dir, DepthInt(args.depth.val))
    IN IF r.err # "none" THEN pc = "error" /\ err = r.err
       ELSE tgt_root = r.root /\ err # "TypeError"

====
